---- MODULE Spec2Model ----
(***************************************************************************)
(* Model of actionista/todoist/action_commands.py: the action pipeline of  *)
(* the todoist-action-cli.  A task list is threaded through a sequence of  *)
(* actions (filters, print, sort, remote mutations).                       *)
(*                                                                         *)
(* Python values are tagged records [t, i, s]: t is the Python type,       *)
(* i the integer payload (int, datetime instant), s the characters of a    *)
(* str.  A str is a sequence of one-character strings so that int(), str(),*)
(* glob matching and ordering are computed, not assumed.                   *)
(***************************************************************************)
EXTENDS Integers, Sequences, FiniteSets, TLC

(***************************************************************************)
(* Bounds of the model.                                                    *)
(***************************************************************************)
MaxLen == 2
MaxSteps == 2
MaxCalls == 3

(***************************************************************************)
(* Python values.                                                          *)
(***************************************************************************)
V(t, i, s) == [t |-> t, i |-> i, s |-> s]
Absent == V("absent", 0, <<>>)
None == V("none", 0, <<>>)
PyInt(n) == V("int", n, <<>>)
PyStr(s) == V("str", 0, s)
PyDt(n) == V("datetime", n, <<>>)
Dict == V("dict", 0, <<>>)

\* The characters of the model's strings, in code point order.
CharOrder == <<"*", "0", "1", "2", "3", "4", "5", "6", "7", "8", "9",
               "A", "_", "a", "b", "e", "n", "o", "p", "r", "t", "v", "y">>
Ord(c) == CHOOSE k \in 1..Len(CharOrder) : CharOrder[k] = c
Digits == <<"0", "1", "2", "3", "4", "5", "6", "7", "8", "9">>
IsDigit(c) == \E k \in 1..10 : Digits[k] = c
DigitVal(c) == (CHOOSE k \in 1..10 : Digits[k] = c) - 1
LowerChar(c) == IF c = "A" THEN "a" ELSE c
Lower(s) == [k \in 1..Len(s) |-> LowerChar(s[k])]

\* A call that either returns a value or raises.
Ok(v) == [err |-> FALSE, v |-> v]
Raise == [err |-> TRUE, v |-> None]

(***************************************************************************)
(* Type constructors, as used by `type(task_value)(value)`.                *)
(***************************************************************************)
RECURSIVE DigitsValue(_)
DigitsValue(s) ==
    IF s = <<>> THEN 0
    ELSE 10 * DigitsValue(SubSeq(s, 1, Len(s) - 1)) + DigitVal(s[Len(s)])

RECURSIVE Decimal(_)
Decimal(n) ==
    IF n < 10 THEN <<Digits[n + 1]>>
    ELSE Decimal(n \div 10) \o <<Digits[(n % 10) + 1]>>

\* int(x): an int is kept, a str of decimal digits is parsed, anything else raises.
py_int(x) ==
    CASE x.t = "int" -> Ok(x)
      [] x.t = "str" ->
            IF x.s # <<>> /\ \A k \in 1..Len(x.s) : IsDigit(x.s[k])
            THEN Ok(PyInt(DigitsValue(x.s)))
            ELSE Raise
      [] OTHER -> Raise

\* str(x): never raises; an int is rendered in decimal, a datetime by its rendering.
py_str(x) ==
    CASE x.t = "str" -> Ok(x)
      [] x.t = "int" -> Ok(PyStr(Decimal(x.i)))
      [] x.t = "datetime" -> Ok(PyStr(Decimal(x.i)))
      [] OTHER -> Ok(PyStr(<<"n", "o">>))

\* datetime(x): the constructor needs year, month, day; one argument raises.
py_datetime(x) == Raise

Construct(t, x) ==
    CASE t = "int" -> py_int(x)
      [] t = "str" -> py_str(x)
      [] t = "datetime" -> py_datetime(x)
      [] OTHER -> Raise

(***************************************************************************)
(* Binary operators (actionista.binary_operators).                         *)
(***************************************************************************)
RECURSIVE SeqLess(_, _)
SeqLess(a, b) ==
    IF b = <<>> THEN FALSE
    ELSE IF a = <<>> THEN TRUE
    ELSE IF a[1] # b[1] THEN Ord(a[1]) < Ord(b[1])
    ELSE SeqLess(Tail(a), Tail(b))

IsPrefix(p, s) == Len(p) <= Len(s) /\ SubSeq(s, 1, Len(p)) = p
IsSuffix(p, s) == Len(p) <= Len(s) /\ SubSeq(s, Len(s) - Len(p) + 1, Len(s)) = p
IsInfix(p, s) == \E k \in 0..(Len(s) - Len(p)) : SubSeq(s, k + 1, k + Len(p)) = p

RECURSIVE GlobMatch(_, _)
GlobMatch(s, p) ==
    IF p = <<>> THEN s = <<>>
    ELSE IF p[1] = "*"
         THEN GlobMatch(s, Tail(p)) \/ (s # <<>> /\ GlobMatch(Tail(s), p))
         ELSE s # <<>> /\ s[1] = p[1] /\ GlobMatch(Tail(s), Tail(p))

OpNames == {"eq", "ne", "lt", "le", "gt", "ge", "contains", "startswith",
            "endswith", "glob", "iglob", "ieq"}

Less(a, b) == IF a.t = "str" THEN SeqLess(a.s, b.s) ELSE a.i < b.i
\* The text an operator on strings sees: the str itself, else its rendering.
Text(a) == py_str(a).v.s

\* op(a, b) of the registry: a boolean, or an error for values that the
\* operator cannot compare (an ordering of None or of two different types).
BinOp(name, a, b) ==
    CASE name = "eq" -> Ok(a = b)
      [] name = "ne" -> Ok(a # b)
      [] name \in {"lt", "le", "gt", "ge"} ->
            IF a.t # b.t \/ a.t \notin {"int", "str", "datetime"} THEN Raise
            ELSE CASE name = "lt" -> Ok(Less(a, b))
                   [] name = "le" -> Ok(Less(a, b) \/ a = b)
                   [] name = "gt" -> Ok(Less(b, a))
                   [] OTHER -> Ok(Less(b, a) \/ a = b)
      [] OTHER ->
            IF a.t # b.t \/ a.t \notin {"int", "str", "datetime"} THEN Raise
            ELSE CASE name = "contains" -> Ok(IsInfix(Text(b), Text(a)))
                   [] name = "startswith" -> Ok(IsPrefix(Text(b), Text(a)))
                   [] name = "endswith" -> Ok(IsSuffix(Text(b), Text(a)))
                   [] name = "glob" -> Ok(GlobMatch(Text(a), Text(b)))
                   [] name = "iglob" -> Ok(GlobMatch(Lower(Text(a)), Lower(Text(b))))
                   [] name = "ieq" -> Ok(Lower(Text(a)) = Lower(Text(b)))
                   [] OTHER -> Raise

(***************************************************************************)
(* Time.  An instant is a number of ticks (UTC); a naive local datetime is *)
(* a number of ticks of the local wall clock, LocalOffset ticks ahead of   *)
(* UTC.  A local day has DayLen ticks.                                     *)
(***************************************************************************)
DayLen == 3
LocalOffset == 1
\* Today's local day number, late enough for yesterday's instants to be >= 0.
Today == LocalOffset + 1
DayStart(day) == day * DayLen
\* actionista.date_utils.start_of_day / end_of_day on a naive local datetime.
start_of_day(dt) == dt - (dt % DayLen)
end_of_day(dt) == dt - (dt % DayLen) + (DayLen - 1)
\* dt.astimezone(tz.tzlocal()) of a naive local datetime: the instant it names.
astimezone_local(dt) == dt - LocalOffset
\* The local day an instant falls on.
LocalDay(instant) == (instant + LocalOffset) \div DayLen
\* A datetime attribute value: local day and tick of the day.
At(day, tick) == PyDt(astimezone_local(DayStart(day) + tick))

(***************************************************************************)
(* Tasks.  A task is a todoist Item (item = TRUE) or a plain dict.  An     *)
(* Item carries its data mapping and, when custom = TRUE, the copy         *)
(* `_custom_data` that the date/project injection adds.  d is the mapping: *)
(* a key maps to Absent when the mapping does not have it.                 *)
(***************************************************************************)
AttrKeys == {"content", "project_name", "priority", "priority_str", "checked",
             "due_date_dt", "due_date", "due_date_utc", "date_string",
             "due", "due.date", "due.date_utc", "due.string"}
Task(id, item, custom, attrs) ==
    [id |-> id, item |-> item, custom |-> custom,
     d |-> [k \in AttrKeys |-> IF k \in DOMAIN attrs THEN attrs[k] ELSE Absent]]

S_ab == <<"a", "b">>
S_Ab == <<"A", "b">>
S_not == <<"n", "o", "t">>
S_b == <<"b">>
S_a3 == <<"a", "3">>
S_glob == <<"a", "*">>
S_3 == <<"3">>
S_03 == <<"0", "3">>
S_0 == <<"0">>

T1 == Task(1, TRUE, TRUE,
        "content" :> PyStr(S_ab) @@ "project_name" :> PyStr(<<"a">>) @@
        "priority" :> PyInt(3) @@ "priority_str" :> PyStr(<<"p", "2">>) @@
        "checked" :> PyInt(0) @@ "due_date_dt" :> At(Today, 1) @@
        "due" :> Dict @@ "due.date" :> PyStr(<<"0", "3">>) @@
        "due.string" :> PyStr(<<"e", "v", "e", "r", "y">>))
T2 == Task(2, TRUE, TRUE,
        "content" :> PyStr(S_Ab) @@ "project_name" :> PyStr(<<"b">>) @@
        "priority" :> PyInt(1) @@ "priority_str" :> PyStr(<<"p", "4">>) @@
        "checked" :> PyInt(1) @@ "due_date_dt" :> At(Today, 0) @@
        "due_date" :> PyStr(<<"0", "3">>) @@ "date_string" :> PyStr(<<"t", "o">>))
T3 == Task(3, TRUE, TRUE,
        "content" :> PyStr(S_not) @@ "project_name" :> PyStr(<<"a">>) @@
        "due_date_dt" :> At(Today - 1, 1) @@ "due" :> None)
T4 == Task(4, TRUE, TRUE,
        "content" :> PyStr(S_b) @@ "project_name" :> None @@
        "priority" :> None @@ "checked" :> PyInt(0) @@
        "due_date_dt" :> None @@ "due" :> Dict @@ "due.date" :> None)
T5 == Task(5, FALSE, FALSE,
        "content" :> PyStr(S_a3) @@ "priority" :> PyInt(3) @@
        "priority_str" :> PyStr(<<"p", "2">>) @@
        "due_date_dt" :> At(Today + 1, 0) @@ "date_string" :> PyStr(<<"t", "o">>))
TaskPool == {T1, T2, T3, T4, T5}
PoolIds == {t.id : t \in TaskPool}

(***************************************************************************)
(* State.                                                                  *)
(*   tasks   the task list handed to the next action (references: ids)     *)
(*   result  what the last action returned                                 *)
(*   last    the last action, its arguments and the list it was given      *)
(*   calls   the remote calls queued on the task-service client, in order  *)
(*   status  "ok", or "error" once an action raised                        *)
(*   step    the number of actions run                                     *)
(*   arglist the caller's list object as the last action left it           *)
(*   local   per task, the due_date_utc written into the local task data   *)
(*           (NoWrite when none) and whether the derived date fields were  *)
(*           injected again after the write                                *)
(***************************************************************************)
VARIABLES current, result, last, calls, status, step, arglist, local
vars == <<current, result, last, calls, status, step, arglist, local>>

NoWrite == [utc |-> -1, derived |-> FALSE]

\* A task list holds references to task objects: the state keeps the ids, the
\* functions below work on the objects.  A local write of due_date_utc shows
\* in a plain dict at once and in an Item's `_custom_data` once the date
\* fields were injected again (then due_date_dt follows it).
Loaded(id) == CHOOSE t \in TaskPool : t.id = id
Obj(id) ==
    LET t == Loaded(id)
        w == local[id]
        raw == IF w.utc >= 0 /\ (w.derived \/ ~t.item)
               THEN [t EXCEPT !.d["due_date_utc"] = PyStr(Decimal(w.utc))] ELSE t
    IN  IF w.utc >= 0 /\ w.derived
        THEN [raw EXCEPT !.d["due_date_dt"] = PyDt(w.utc)] ELSE raw
Objs(ids) == [k \in 1..Len(ids) |-> Obj(ids[k])]
Ids(l) == [k \in 1..Len(l) |-> l[k].id]

RECURSIVE ListsUpTo(_)
ListsUpTo(n) ==
    IF n = 0 THEN {<<>>}
    ELSE LET S == ListsUpTo(n - 1)
         IN  S \cup {Append(l, t) : l \in {x \in S : Len(x) = n - 1}, t \in PoolIds}
TaskLists == ListsUpTo(MaxLen)

\* What an action hands back: a task list, None, or an exception.
Returned(l) == [kind |-> "list", list |-> l]
ReturnedNone == [kind |-> "none", list |-> <<>>]
Raised == [kind |-> "raise", list |-> <<>>]
\* A call's outcome together with the argument list as the call left it.
Outcome(r, arg) ==
    [kind |-> r.kind, list |-> r.list, arg |-> arg, calls |-> <<>>, writes |-> <<>>]
\* The outcome of an action that queues remote calls and writes task data.
Effects(r, arg, newcalls, writes) ==
    [kind |-> r.kind, list |-> r.list, arg |-> arg, calls |-> newcalls, writes |-> writes]

(***************************************************************************)
(* filter_tasks.  A filter spec F is the record of its parameters:         *)
(*   taskkey, op_name, value, missing, default, value_transform, negate.   *)
(* value_transform is "none" (Python None), "_" (the command line's        *)
(* placeholder), "int" or "str".  negate is a Python bool [t |-> "bool"]   *)
(* or a command line str.                                                  *)
(***************************************************************************)
PyBool(b) == [t |-> "bool", b |-> b, s |-> ""]
NegStr(s) == [t |-> "str", b |-> FALSE, s |-> s]
LowerWord(w) ==
    CASE w = "False" -> "false"
      [] w = "True" -> "true"
      [] OTHER -> w

\* Lines 207-210: the strings false, _, __none__, 0 (any case) mean False.
NormNegate(n) ==
    IF n.t = "str"
    THEN IF LowerWord(n.s) \in {"false", "_", "__none__", "0"} THEN FALSE ELSE n.s # ""
    ELSE n.b

\* Lines 203-206: "_" stands for None on the command line.
S_underscore == <<"_">>
NormDefault(d) == IF d = PyStr(S_underscore) THEN None ELSE d
NormTransform(t) == IF t = "_" THEN "none" ELSE t

\* bool(x) of a value.
Truthy(x) ==
    CASE x.t = "none" -> FALSE
      [] x.t = "int" -> x.i # 0
      [] x.t = "str" -> x.s # <<>>
      [] OTHER -> TRUE

\* 'date' in taskkey
HasDateInKey(k) == k \in {"due_date_dt", "due_date", "due_date_utc", "date_string"}
\* value[-2:] raises for a value that is no sequence.
Subscriptable(x) == x.t = "str"

\* Line 253: the mapping a task is read through.
TaskRecord(task) ==
    IF task.item
    THEN IF task.custom THEN Ok(task.d) ELSE Raise
    ELSE Ok(task.d)

StripDue(k) == IF k = "due_date" THEN "due.date" ELSE "due.date_utc"
NoneIfAbsent(x) == IF x = Absent THEN None ELSE x

\* Lines 255-261: the task value; default_ replaces an absent key (dict.get).
LookUp(d, taskkey, default_) ==
    IF d["due"] # Absent /\ taskkey \in {"due_date", "due_date_utc"}
    THEN IF d["due"] = Dict THEN NoneIfAbsent(d[StripDue(taskkey)]) ELSE None
    ELSE IF d[taskkey] = Absent THEN default_ ELSE d[taskkey]

\* A get_value that converts nothing.
CoerceNothing(task_value, value) == Ok(value)

\* Lines 262-265: the shared comparison value after this task was looked at.
Coerce(task_value, value) ==
    IF task_value.t # "none" /\ task_value.t # value.t
    THEN Construct(task_value.t, value)
    ELSE Ok(value)

\* get_value(task, default_): [err, tv, value], value being the nonlocal
\* comparison value as the call leaves it.
get_value(task, taskkey, default_, value) ==
    LET r == TaskRecord(task) IN
    IF r.err THEN [err |-> TRUE, tv |-> None, value |-> value]
    ELSE LET tv == LookUp(r.v, taskkey, default_)
             c == Coerce(tv, value)
         IN  IF c.err THEN [err |-> TRUE, tv |-> tv, value |-> value]
             ELSE [err |-> FALSE, tv |-> tv, value |-> c.v]

\* `op(task_value, value) != negate`: [err, pass, value].
Compared(cmp, negate, value) ==
    [err |-> cmp.err, pass |-> (~cmp.err) /\ (cmp.v # negate), value |-> value]

\* A filter_eval that applies negate to the missing decision as well.
filter_eval_body_negating_missing(g, op_name, missing, negate, value) ==
    IF g.err THEN [err |-> TRUE, pass |-> FALSE, value |-> value]
    ELSE IF g.tv = None /\ missing # "default"
    THEN [err |-> missing = "raise", pass |-> (missing = "include") # negate,
          value |-> g.value]
    ELSE Compared(BinOp(op_name, g.tv, g.value), negate, g.value)

\* A filter_eval that ignores negate.
filter_eval_body_ignoring_negate(g, op_name, missing, negate, value) ==
    IF g.err THEN [err |-> TRUE, pass |-> FALSE, value |-> value]
    ELSE IF g.tv = None /\ missing # "default"
    THEN [err |-> missing = "raise", pass |-> missing = "include", value |-> g.value]
    ELSE Compared(BinOp(op_name, g.tv, g.value), FALSE, g.value)

\* A filter_eval whose raise policy drops the task instead of raising.
filter_eval_body_dropping_on_raise(g, op_name, missing, negate, value) ==
    IF g.err THEN [err |-> TRUE, pass |-> FALSE, value |-> value]
    ELSE IF g.tv = None /\ missing # "default"
    THEN [err |-> FALSE, pass |-> missing = "include", value |-> g.value]
    ELSE Compared(BinOp(op_name, g.tv, g.value), negate, g.value)

\* Lines 268-299: what the filter_eval closure of the given missing policy
\* does with the result g of its get_value call.  A None task value raises
\* under raise, passes under include and fails under exclude; under default
\* it is compared like any other.
filter_eval_body(g, op_name, missing, negate, value) ==
    IF g.err THEN [err |-> TRUE, pass |-> FALSE, value |-> value]
    ELSE IF g.tv = None /\ missing # "default"
    THEN [err |-> missing = "raise", pass |-> missing = "include", value |-> g.value]
    ELSE Compared(BinOp(op_name, g.tv, g.value), negate, g.value)

\* The filter_eval closure on one task: [err, pass, value].  Only the closure
\* of the default policy hands its default to get_value.
filter_eval(task, taskkey, op_name, missing, default, negate, value) ==
    filter_eval_body(
        get_value(task, taskkey, IF missing = "default" THEN default ELSE None, value),
        op_name, missing, negate, value)

RECURSIVE FilterLoop(_, _, _, _, _, _, _)

\* A comprehension that collects the passing tasks back to front.
FilterStepReversed(e, tasks, taskkey, op_name, missing, default, negate) ==
    LET rest == FilterLoop(Tail(tasks), taskkey, op_name, missing, default, negate, e.value)
    IN  IF e.err \/ rest.kind = "raise" THEN Raised
        ELSE Returned(rest.list \o (IF e.pass THEN <<tasks[1]>> ELSE <<>>))

\* The comprehension after filter_eval's result e for the first task: the
\* task is kept when it passed, and the following tasks see the shared value.
FilterStep(e, tasks, taskkey, op_name, missing, default, negate) ==
    LET rest == FilterLoop(Tail(tasks), taskkey, op_name, missing, default, negate, e.value)
    IN  IF e.err \/ rest.kind = "raise" THEN Raised
        ELSE Returned((IF e.pass THEN <<tasks[1]>> ELSE <<>>) \o rest.list)

\* Line 305: the list comprehension, left to right, sharing `value`.
FilterLoop(tasks, taskkey, op_name, missing, default, negate, value) ==
    IF tasks = <<>> THEN Returned(<<>>)
    ELSE FilterStep(filter_eval(tasks[1], taskkey, op_name, missing, default, negate, value),
                    tasks, taskkey, op_name, missing, default, negate)

\* Line 305 rebinds the local name `tasks` to a new list: the list object that
\* was passed in keeps its members.
Comprehension(tasks, r) == Outcome(r, tasks)

Policies == {"raise", "include", "exclude", "default"}

\* Lines 220-248: the comparison value and the default after value_transform.
Transformed(transform, x) ==
    CASE transform = "int" -> py_int(x)
      [] transform = "str" -> py_str(x)
      [] OTHER -> Ok(x)

filter_tasks(tasks, F) ==
    LET default == NormDefault(F.default)
        transform == NormTransform(F.value_transform)
        negate == NormNegate(F.negate)
        value == Transformed(transform, F.value)
        transformDefault == transform # "none" /\ Truthy(default) /\ F.missing = "default"
        default2 == IF transformDefault THEN Transformed(transform, default) ELSE Ok(default)
    IN  IF F.op_name = "le" /\ HasDateInKey(F.taskkey) /\ ~Subscriptable(F.value)
        THEN Outcome(Raised, tasks)
        ELSE IF F.op_name \notin OpNames THEN Outcome(Raised, tasks)
        ELSE IF value.err \/ default2.err THEN Outcome(Raised, tasks)
        ELSE IF F.missing \notin Policies THEN Outcome(Raised, tasks)
        ELSE Comprehension(tasks,
                FilterLoop(tasks, F.taskkey, F.op_name, F.missing, default2.v, negate, value.v))

FSpec(taskkey, op_name, value, missing, default, value_transform, negate) ==
    [taskkey |-> taskkey, op_name |-> op_name, value |-> value, missing |-> missing,
     default |-> default, value_transform |-> value_transform, negate |-> negate]

(***************************************************************************)
(* Command line words.  An action's arguments are words; a word that       *)
(* becomes a comparison value is the str of its characters.                *)
(***************************************************************************)
WordChars ==
    "a*" :> S_glob @@ "Ab" :> S_Ab @@ "ab" :> S_ab @@ "not" :> S_not @@
    "3" :> S_3 @@ "03" :> S_03 @@ "0" :> S_0 @@ "a" :> <<"a">> @@ "b" :> S_b @@
    "p1" :> <<"p", "1">> @@ "p2" :> <<"p", "2">> @@ "p3" :> <<"p", "3">> @@
    "p4" :> <<"p", "4">> @@ "_" :> S_underscore
ValueWords == DOMAIN WordChars
StrOf(w) == PyStr(WordChars[w])

\* filter_tasks(tasks, *args, taskkey=..., op_name=..., value=..., negate=...,
\* **kwargs): a further positional argument lands on the parameter `taskkey`,
\* which the keyword already binds: TypeError.
CallFilterWithExtra(tasks, extra, taskkey, op_name, value, value_transform, negate) ==
    IF extra # <<>> THEN Outcome(Raised, tasks)
    ELSE filter_tasks(tasks,
            FSpec(taskkey, op_name, value, "exclude", None, value_transform, PyBool(negate)))

\* An adaptor that drops the negation it parsed.
generic_args_filter_adaptor_no_negate(tasks, taskkey, args, default_op, value_transform) ==
    IF Len(args) < 1 THEN Outcome(Raised, tasks)
    ELSE LET rest == IF args[1] = "not" THEN Tail(args) ELSE args
         IN  IF Len(rest) = 1
             THEN CallFilterWithExtra(tasks, <<>>, taskkey, default_op, StrOf(rest[1]),
                                      value_transform, FALSE)
             ELSE IF Len(rest) < 2 THEN Outcome(Raised, tasks)
             ELSE CallFilterWithExtra(tasks, SubSeq(rest, 3, Len(rest)), taskkey,
                                      rest[1], StrOf(rest[2]), value_transform, FALSE)

\* generic_args_filter_adaptor: the assert, the leading 'not', then one word
\* (a value for the default operator) or operator, value and further words;
\* unpacking fewer than two words raises.
generic_args_filter_adaptor(tasks, taskkey, args, default_op, value_transform) ==
    IF Len(args) < 1 THEN Outcome(Raised, tasks)
    ELSE LET negate == args[1] = "not"
             rest == IF negate THEN Tail(args) ELSE args
         IN  IF Len(rest) = 1
             THEN CallFilterWithExtra(tasks, <<>>, taskkey, default_op, StrOf(rest[1]),
                                      value_transform, negate)
             ELSE IF Len(rest) < 2 THEN Outcome(Raised, tasks)
             ELSE CallFilterWithExtra(tasks, SubSeq(rest, 3, Len(rest)), taskkey,
                                      rest[1], StrOf(rest[2]), value_transform, negate)

content_filter(tasks, args) ==
    generic_args_filter_adaptor(tasks, "content", args, "iglob", "none")
project_filter(tasks, args) ==
    generic_args_filter_adaptor(tasks, "project_name", args, "iglob", "none")
priority_filter(tasks, args) ==
    generic_args_filter_adaptor(tasks, "priority", args, "eq", "int")
priority_str_filter(tasks, args) ==
    generic_args_filter_adaptor(tasks, "priority_str", args, "eq", "none")

\* The (tasks, value, *args) filters: value is required, further words are
\* handed to filter_tasks positionally.
ValueFilter(tasks, taskkey, op_name, args) ==
    IF Len(args) < 1 THEN Outcome(Raised, tasks)
    ELSE CallFilterWithExtra(tasks, Tail(args), taskkey, op_name, StrOf(args[1]),
                             "none", FALSE)
content_contains_filter(tasks, args) == ValueFilter(tasks, "content", "contains", args)
content_startswith_filter(tasks, args) == ValueFilter(tasks, "content", "startswith", args)
content_endswith_filter(tasks, args) == ValueFilter(tasks, "content", "endswith", args)
content_glob_filter(tasks, args) == ValueFilter(tasks, "content", "glob", args)
content_iglob_filter(tasks, args) == ValueFilter(tasks, "content", "iglob", args)
content_eq_filter(tasks, args) == ValueFilter(tasks, "content", "eq", args)
content_ieq_filter(tasks, args) == ValueFilter(tasks, "content", "ieq", args)
project_iglob_filter(tasks, args) == ValueFilter(tasks, "project_name", "iglob", args)
priority_str_eq_filter(tasks, args) == ValueFilter(tasks, "priority_str", "eq", args)

\* priority_ge_filter / priority_eq_filter: value = int(value) first.
IntValueFilter(tasks, op_name, args) ==
    IF Len(args) < 1 THEN Outcome(Raised, tasks)
    ELSE LET v == py_int(StrOf(args[1]))
         IN  IF v.err THEN Outcome(Raised, tasks)
             ELSE CallFilterWithExtra(tasks, Tail(args), "priority", op_name, v.v,
                                      "none", FALSE)
priority_ge_filter(tasks, args) == IntValueFilter(tasks, "ge", args)
priority_eq_filter(tasks, args) == IntValueFilter(tasks, "eq", args)

\* p1_filter .. p4_filter: priority_str_eq_filter(tasks, value="pN", *args): a
\* positional word collides with the keyword `value`.
pN_filter(tasks, word, args) ==
    IF args # <<>> THEN Outcome(Raised, tasks)
    ELSE priority_str_eq_filter(tasks, <<word>>)

(***************************************************************************)
(* The special multi-word filters: -is, -not, -due.                        *)
(***************************************************************************)
\* parsedatetime's time of day for a phrase that names a day only.
StartTick == 1

\* cal.parseDT(when, version=2): the naive local datetime and the context's
\* hasDate / hasTime.  A phrase the parser does not know has neither.
parseDT(when) ==
    CASE when = "today" ->
            [dt |-> DayStart(Today) + StartTick, hasDate |-> TRUE, hasTime |-> FALSE]
      [] when = "tomorrow" ->
            [dt |-> DayStart(Today + 1) + StartTick, hasDate |-> TRUE, hasTime |-> FALSE]
      [] when = "yesterday" ->
            [dt |-> DayStart(Today - 1) + StartTick, hasDate |-> TRUE, hasTime |-> FALSE]
      [] when = "today eod" ->
            [dt |-> DayStart(Today) + (DayLen - 1), hasDate |-> TRUE, hasTime |-> TRUE]
      [] when = "noon" ->
            [dt |-> DayStart(Today) + StartTick, hasDate |-> FALSE, hasTime |-> TRUE]
      [] OTHER ->
            [dt |-> DayStart(Today) + StartTick, hasDate |-> FALSE, hasTime |-> FALSE]

\* get_recurring_tasks(tasks, negate): the tasks whose due string starts with
\* "every", or the others when negate.
S_every == <<"e", "v", "e", "r", "y">>
DueString(task) == IF task.d["due"] = Dict THEN task.d["due.string"] ELSE task.d["date_string"]
IsRecurring(task) == DueString(task).t = "str" /\ IsPrefix(S_every, Lower(DueString(task).s))
get_recurring_tasks(tasks, negate) == SelectSeq(tasks, LAMBDA t : IsRecurring(t) # negate)

\* Lines 365-366: args is the tuple of *args and its two-element slice is
\* compared with three-element lists: the rewrite never applies.
DueOrOverdueRewrite(args) == args

\* Lines 367-395: operator, snapping and date phrase of a due / overdue filter.
DueResolve(args) ==
    IF args[1] = "overdue"
    THEN [err |-> FALSE, op_name |-> "lt", convert |-> "start_of_day", when |-> "today"]
    ELSE IF Len(args) > 1
    THEN IF args[2] \in {"before", "on", "after"}
         THEN IF Len(args) < 3
              THEN [err |-> TRUE, op_name |-> "", convert |-> "", when |-> ""]
              ELSE CASE args[2] = "before" ->
                          [err |-> FALSE, op_name |-> "lt", convert |-> "start_of_day",
                           when |-> args[3]]
                     [] args[2] = "on" ->
                          [err |-> FALSE, op_name |-> "startswith", convert |-> "none",
                           when |-> args[3]]
                     [] OTHER ->
                          [err |-> FALSE, op_name |-> "gt", convert |-> "end_of_day",
                           when |-> args[3]]
         ELSE [err |-> FALSE, op_name |-> "startswith", convert |-> "none", when |-> args[2]]
    ELSE [err |-> FALSE, op_name |-> "le", convert |-> "end_of_day", when |-> "today"]

\* Lines 406-411: the parsed datetime, snapped when the phrase had no time.
Snapped(convert, parsed) ==
    IF convert # "none" /\ ~parsed.hasTime
    THEN IF convert = "start_of_day" THEN start_of_day(parsed.dt) ELSE end_of_day(parsed.dt)
    ELSE parsed.dt

\* A pre-filter that drops tasks without a checked attribute.
CompletedRemovedStrict(tasks) ==
    filter_tasks(tasks, FSpec("checked", "eq", PyInt(0), "exclude", None, "none", PyBool(FALSE)))

\* Line 415: completed tasks are removed first.
CompletedRemoved(tasks) ==
    filter_tasks(tasks, FSpec("checked", "eq", PyInt(0), "include", None, "none", PyBool(FALSE)))

\* Lines 420-423: the comparison with the local datetime.
DueCompare(tasks, args, negate) ==
    LET q == DueResolve(DueOrOverdueRewrite(args))
        parsed == parseDT(q.when)
    IN  filter_tasks(tasks,
            FSpec("due_date_dt", q.op_name,
                  PyDt(astimezone_local(Snapped(q.convert, parsed))),
                  "exclude", None, "none", PyBool(negate)))

\* Lines 363-423: the due / overdue branch.
DueFilter(tasks, args, negate) ==
    LET q == DueResolve(DueOrOverdueRewrite(args))
        open == CompletedRemoved(tasks)
    IN  IF q.err \/ ~parseDT(q.when).hasDate THEN Outcome(Raised, tasks)
        ELSE IF open.kind = "raise" THEN Outcome(Raised, tasks)
        ELSE Outcome(DueCompare(open.list, args, negate), tasks)

CheckedWords == {"checked", "unchecked", "complete", "incomplete", "completed", "done"}
\* args[0][:2] in ('in', 'un')
CheckedValue(word) == IF word \in {"unchecked", "incomplete"} THEN 0 ELSE 1

special_is_filter(tasks, args0) ==
    IF args0 = <<>> THEN Outcome(Raised, tasks)
    ELSE LET negate == args0[1] = "not"
             args == IF negate THEN Tail(args0) ELSE args0
         IN  IF args = <<>> THEN Outcome(Raised, tasks)
             ELSE CASE args[1] \in {"due", "overdue"} -> DueFilter(tasks, args, negate)
                    [] args[1] \in CheckedWords ->
                         filter_tasks(tasks,
                            FSpec("checked", "eq", PyInt(CheckedValue(args[1])), "exclude",
                                  None, "none", PyBool(negate)))
                    [] args[1] = "in" ->
                         IF Len(args) < 2 THEN Outcome(Raised, tasks)
                         ELSE filter_tasks(tasks,
                                FSpec("project_name", "eq", StrOf(args[2]), "exclude",
                                      None, "none", PyBool(negate)))
                    [] args[1] = "recurring" ->
                         Outcome(Returned(get_recurring_tasks(tasks, negate)), tasks)
                    [] OTHER -> Outcome(Raised, tasks)

is_not_filter(tasks, args) == special_is_filter(tasks, <<"not">> \o args)
due_date_filter(tasks, when) == special_is_filter(tasks, <<"due">> \o when)

(***************************************************************************)
(* print_tasks and sort_tasks.                                             *)
(***************************************************************************)
\* Fields that inject_tasks_date_fields adds to `_custom_data`.
InjectedKeys == {"due_date_safe_dt", "checked_str", "due_string_safe"}
\* Line 99 and line 140: getattr(task, data_attr, task.data) for an Item; a
\* plain dict has no attribute `data`, and the default is evaluated eagerly.
HasKey(task, k) == IF k \in InjectedKeys THEN task.item /\ task.custom ELSE task.d[k] # Absent

\* The replacement fields of a print format: <<key, has a format spec>>.
FormatFields(print_fmt) ==
    CASE print_fmt = "default" ->
            {<<"project_name", TRUE>>, <<"due_date_safe_dt", TRUE>>,
             <<"priority_str", FALSE>>, <<"checked_str", FALSE>>,
             <<"content", FALSE>>, <<"due_string_safe", FALSE>>}
      [] print_fmt = "* {content}" -> {<<"content", FALSE>>}
      [] OTHER -> {}

\* str.format raises KeyError for a missing field and TypeError for None
\* under a format spec.
Formats(task, print_fmt) ==
    \A f \in FormatFields(print_fmt) :
        /\ HasKey(task, f[1])
        /\ (f[2] /\ f[1] \notin InjectedKeys) => task.d[f[1]] # None

\* A version that ends without a return statement.
print_tasks_without_return(tasks, print_fmt) == Outcome(ReturnedNone, tasks)

print_tasks(tasks, print_fmt) ==
    IF \A k \in 1..Len(tasks) : Formats(tasks[k], print_fmt)
    THEN Outcome(Returned(tasks), tasks)
    ELSE Outcome(Raised, tasks)

\* The sort key of a task: the tuple of its values at the keys.
SortKey(task, keys) == [k \in 1..Len(keys) |-> task.d[keys[k]]]
HasSortKey(task, keys) == task.item /\ \A k \in 1..Len(keys) : task.d[keys[k]] # Absent

\* a < b of two values: TypeError for None and for two different types.
ValueLess(a, b) ==
    IF a.t # b.t \/ a.t \notin {"int", "str", "datetime"} THEN [err |-> TRUE, v |-> FALSE]
    ELSE [err |-> FALSE, v |-> Less(a, b)]

\* ka < kb of two sort keys, as operator.itemgetter builds them: the bare
\* value for one key, a tuple for several (compared at the first index where
\* the two differ; equal tuples are not less).
RECURSIVE TupleLess(_, _)
TupleLess(ka, kb) ==
    IF ka = <<>> THEN [err |-> FALSE, v |-> FALSE]
    ELSE IF ka[1] = kb[1] THEN TupleLess(Tail(ka), Tail(kb))
    ELSE ValueLess(ka[1], kb[1])
KeyLess(ka, kb) == IF Len(ka) = 1 THEN ValueLess(ka[1], kb[1]) ELSE TupleLess(ka, kb)

Reverse(l) == [k \in 1..Len(l) |-> l[Len(l) + 1 - k]]

\* list.sort on a short list: the leading run, then binary insertion.
\* S is [err, l]; entries of l are <<key, task>>.
RECURSIVE RunLength(_, _, _)
RunLength(l, n, descending) ==
    IF n >= Len(l) THEN [err |-> FALSE, n |-> n]
    ELSE LET c == KeyLess(l[n + 1][1], l[n][1])
         IN  IF c.err THEN [err |-> TRUE, n |-> n]
             ELSE IF c.v = descending THEN RunLength(l, n + 1, descending)
             ELSE [err |-> FALSE, n |-> n]

RECURSIVE BinaryPlace(_, _, _, _)
BinaryPlace(l, pivot, lo, hi) ==
    IF lo >= hi THEN [err |-> FALSE, at |-> lo]
    ELSE LET mid == lo + ((hi - lo) \div 2)
             c == KeyLess(pivot[1], l[mid][1])
         IN  IF c.err THEN [err |-> TRUE, at |-> lo]
             ELSE IF c.v THEN BinaryPlace(l, pivot, lo, mid)
             ELSE BinaryPlace(l, pivot, mid + 1, hi)

RECURSIVE BinarySort(_, _)
BinarySort(l, start) ==
    IF start > Len(l) THEN [err |-> FALSE, l |-> l]
    ELSE LET pos == BinaryPlace(l, l[start], 1, start)
             moved == SubSeq(l, 1, pos.at - 1) \o <<l[start]>>
                      \o SubSeq(l, pos.at, start - 1) \o SubSeq(l, start + 1, Len(l))
         IN  IF pos.err THEN [err |-> TRUE, l |-> l]
             ELSE BinarySort(moved, start + 1)

ListSort(l) ==
    IF Len(l) < 2 THEN [err |-> FALSE, l |-> l]
    ELSE LET first == KeyLess(l[2][1], l[1][1])
             run == RunLength(l, 2, first.v)
             ordered == IF first.v
                        THEN Reverse(SubSeq(l, 1, run.n)) \o SubSeq(l, run.n + 1, Len(l))
                        ELSE l
         IN  IF first.err \/ run.err THEN [err |-> TRUE, l |-> l]
             ELSE BinarySort(ordered, run.n + 1)

\* A descending sort that sorts ascending and reverses the result.
sort_tasks_reversing_ascending(tasks, keys, order) ==
    IF \E k \in 1..Len(tasks) : ~HasSortKey(tasks[k], keys) THEN Outcome(Raised, tasks)
    ELSE LET keyed == [k \in 1..Len(tasks) |-> <<SortKey(tasks[k], keys), tasks[k]>>]
             sorted == ListSort(keyed)
             out == IF order = "descending" THEN Reverse(sorted.l) ELSE sorted.l
         IN  IF sorted.err THEN Outcome(Raised, tasks)
             ELSE Outcome(Returned([k \in 1..Len(out) |-> out[k][2]]), tasks)

\* sorted(tasks, key=keyfunc, reverse=...): all keys are computed first; a
\* reverse sort is the stable sort of the reversed list, reversed.
sort_tasks(tasks, keys, order) ==
    IF \E k \in 1..Len(tasks) : ~HasSortKey(tasks[k], keys) THEN Outcome(Raised, tasks)
    ELSE LET keyed == [k \in 1..Len(tasks) |-> <<SortKey(tasks[k], keys), tasks[k]>>]
             descending == order = "descending"
             sorted == ListSort(IF descending THEN Reverse(keyed) ELSE keyed)
             out == IF descending THEN Reverse(sorted.l) ELSE sorted.l
         IN  IF sorted.err THEN Outcome(Raised, tasks)
             ELSE Outcome(Returned([k \in 1..Len(out) |-> out[k][2]]), tasks)

(***************************************************************************)
(* Mutating actions: one call on the task-service client per task.         *)
(***************************************************************************)
Call(id, method, field, word, utc, text) ==
    [id |-> id, method |-> method, field |-> field, word |-> word, utc |-> utc, text |-> text]

\* The tasks a per-task loop gets through: a method of Item, or `task.data`,
\* raises AttributeError on the first plain dict.
RECURSIVE ItemsPrefix(_)
ItemsPrefix(tasks) ==
    IF tasks = <<>> \/ ~tasks[1].item THEN <<>>
    ELSE <<tasks[1]>> \o ItemsPrefix(Tail(tasks))

MethodLoop(tasks, method, word, text) ==
    LET done == ItemsPrefix(tasks)
        issued == [k \in 1..Len(done) |-> Call(done[k].id, method, "", word, -1, text)]
    IN  Effects(IF Len(done) = Len(tasks) THEN Returned(tasks) ELSE Raised,
                tasks, issued, <<>>)

close_tasks(tasks) == MethodLoop(tasks, "close", "", "")
uncomplete_tasks(tasks) == MethodLoop(tasks, "uncomplete", "", "")
archive_tasks(tasks) == MethodLoop(tasks, "archive", "", "")
complete_and_update_date_for_recurring_tasks(tasks, new_date, due_string) ==
    MethodLoop(tasks, "update_date_complete", new_date, due_string)

\* Lines 734-747: the method is looked at once per task.
mark_tasks_completed(tasks, method) ==
    CASE method \in {"close", "item_close"} -> MethodLoop(tasks, "close", "", "")
      [] method \in {"complete", "item_complete"} -> MethodLoop(tasks, "complete", "", "")
      [] OTHER ->
            Effects(IF tasks = <<>> THEN Returned(tasks) ELSE Raised, tasks, <<>>, <<>>)

\* dateparser.parse(new_date) at local time `now`: None for an unknown phrase.
dateparser_parse(new_date, now) ==
    CASE new_date = "today" -> [ok |-> TRUE, dt |-> now]
      [] new_date = "tomorrow" -> [ok |-> TRUE, dt |-> now + DayLen]
      [] new_date = "in 2 days" -> [ok |-> TRUE, dt |-> now + 2 * DayLen]
      [] new_date = "yesterday" -> [ok |-> TRUE, dt |-> now - DayLen]
      [] OTHER -> [ok |-> FALSE, dt |-> now]

\* Line 658: today, tomorrow and "... days" get the time 23:59:59.
SnapsToEndOfDay(new_date) == new_date \in {"today", "tomorrow", "in 2 days"}

\* Lines 662-667: the timezone is resolved, but datetime.replace returns a new
\* object that is dropped: new_date stays naive.
Localized(dt, timezone) == dt

\* actionista.date_utils.local_time_to_utc of a naive datetime.
local_time_to_utc(dt) == dt - LocalOffset

\* The tasks the loop of lines 671-676 gets through: task['date_string']
\* raises KeyError on the first task without the key.
RECURSIVE DateStringPrefix(_)
DateStringPrefix(tasks) ==
    IF tasks = <<>> \/ tasks[1].d["date_string"] = Absent THEN <<>>
    ELSE <<tasks[1]>> \o DateStringPrefix(Tail(tasks))

\* A version that queues its updates only when the whole loop went through.
RescheduleByUtcAllOrNothing(tasks, new_date, timezone, update_local, now) ==
    LET parsed == dateparser_parse(new_date, now)
        dt == IF SnapsToEndOfDay(new_date) THEN end_of_day(parsed.dt) ELSE parsed.dt
        new_date_utc == local_time_to_utc(Localized(dt, timezone))
        sent == SelectSeq(tasks, LAMBDA t : t.item)
        written == SelectSeq(tasks, LAMBDA t : update_local \/ ~t.item)
    IN  IF ~parsed.ok \/ Len(DateStringPrefix(tasks)) # Len(tasks)
        THEN Effects(Raised, tasks, <<>>, <<>>)
        ELSE Effects(Returned(tasks), tasks,
                [k \in 1..Len(sent) |->
                    Call(sent[k].id, "update", "due_date_utc", "", new_date_utc,
                         sent[k].d["date_string"].s)],
                [k \in 1..Len(written) |->
                    [id |-> written[k].id, utc |-> new_date_utc, derived |-> update_local]])

\* Lines 647-679.  task.update on a plain dict is dict.update: a local write.
RescheduleByUtc(tasks, new_date, timezone, update_local, now) ==
    LET parsed == dateparser_parse(new_date, now)
        dt == IF SnapsToEndOfDay(new_date) THEN end_of_day(parsed.dt) ELSE parsed.dt
        new_date_utc == local_time_to_utc(Localized(dt, timezone))
        done == DateStringPrefix(tasks)
        complete == Len(done) = Len(tasks)
        sent == SelectSeq(done, LAMBDA t : t.item)
        written == SelectSeq(done, LAMBDA t : update_local \/ ~t.item)
    IN  IF ~parsed.ok THEN Effects(Raised, tasks, <<>>, <<>>)
        ELSE Effects(IF complete THEN Returned(tasks) ELSE Raised, tasks,
                [k \in 1..Len(sent) |->
                    Call(sent[k].id, "update", "due_date_utc", "", new_date_utc,
                         sent[k].d["date_string"].s)],
                [k \in 1..Len(written) |->
                    [id |-> written[k].id, utc |-> new_date_utc,
                     derived |-> update_local /\ complete]])

\* A version of the date-string mode that parses the date and sends the timestamp.
RescheduleByStringParsed(tasks, new_date) ==
    RescheduleByUtc(tasks, new_date, "local", FALSE, DayStart(Today))

\* Lines 636-646: the date string is sent as it is.
RescheduleByString(tasks, new_date) ==
    LET done == ItemsPrefix(tasks)
        issued == [k \in 1..Len(done) |->
                     IF done[k].d["due"] # Absent
                     THEN Call(done[k].id, "update", "due.string", new_date, -1, "")
                     ELSE Call(done[k].id, "update", "date_string", new_date, -1, "")]
    IN  Effects(IF Len(done) = Len(tasks) THEN Returned(tasks) ELSE Raised,
                tasks, issued, <<>>)

\* reschedule_tasks(tasks, *args): new_date, timezone, update_local and
\* check_recurring are the words of the command line, in this order.
reschedule_tasks(tasks, args, now) ==
    LET timezone == IF Len(args) >= 2 THEN args[2] ELSE "date_string"
        update_local == Len(args) >= 3 /\ args[3] # ""
        check_recurring == Len(args) < 4
        recurring == get_recurring_tasks(tasks, FALSE)
        warned == IF check_recurring /\ recurring # <<>>
                  THEN print_tasks(recurring, "default").kind # "raise" ELSE TRUE
    IN  IF Len(args) < 1 \/ Len(args) > 4 THEN Effects(Raised, tasks, <<>>, <<>>)
        ELSE IF ~warned THEN Effects(Raised, tasks, <<>>, <<>>)
        ELSE IF timezone = "date_string" THEN RescheduleByString(tasks, args[1])
        ELSE RescheduleByUtc(tasks, args[1], timezone, update_local, now)

(***************************************************************************)
(* The pipeline.                                                           *)
(***************************************************************************)
NoSpec == FSpec("", "", None, "", None, "none", PyBool(FALSE))
Last(action, args, F, clock) ==
    [action |-> action, args |-> args, F |-> F, clock |-> clock,
     input |-> current, base |-> Len(calls)]

Init ==
    /\ current \in TaskLists
    /\ result = Returned(current)
    /\ last = [action |-> "load", args |-> <<>>, F |-> NoSpec, clock |-> 0,
               input |-> <<>>, base |-> 0]
    /\ calls = <<>>
    /\ status = "ok"
    /\ step = 0
    /\ arglist = current
    /\ local = [id \in PoolIds |-> NoWrite]

Ready == status = "ok" /\ step < MaxSteps
\* A mutating action is taken while the call queue has room for its calls.
Room == Len(calls) + Len(current) <= MaxCalls

LastWrite(writes, id, old) ==
    LET at == {k \in 1..Len(writes) : writes[k].id = id}
    IN  IF at = {} THEN old
        ELSE LET k == CHOOSE x \in at : \A y \in at : y <= x
             IN  [utc |-> writes[k].utc, derived |-> writes[k].derived]

\* One stage of the left-to-right fold over the actions: the action's return
\* value becomes the next action's input; an exception ends the pipeline.
Stage(action, args, F, clock, r) ==
    /\ step' = step + 1
    /\ arglist' = Ids(r.arg)
    /\ last' = Last(action, args, F, clock)
    /\ result' = [kind |-> r.kind, list |-> Ids(r.list)]
    /\ current' = IF r.kind = "list" THEN Ids(r.list) ELSE current
    /\ calls' = calls \o r.calls
    /\ local' = [id \in PoolIds |-> LastWrite(r.writes, id, local[id])]
    /\ status' = IF r.kind = "list" THEN "ok" ELSE "error"

(***************************************************************************)
(* Inputs.  The first action of a pipeline draws its arguments from the    *)
(* full sets, the following ones from the short sets.                      *)
(***************************************************************************)
Inputs(full, short) == IF step = 0 THEN full ELSE short

NegateInputs == {PyBool(TRUE), PyBool(FALSE), NegStr("False")}
PolicyInputs ==
    {<<"raise", None>>, <<"include", None>>, <<"exclude", None>>,
     <<"default", None>>, <<"default", PyStr(S_0)>>, <<"default", PyStr(S_03)>>,
     <<"default", PyStr(S_underscore)>>, <<"default", PyStr(<<>>)>>,
     <<"ignore", None>>}
KeyOpValueInputs ==
    ({"content"} \X (OpNames \cup {"bogus"}) \X {PyStr(S_glob), PyStr(S_Ab)} \X {"none", "_"})
    \cup ({"priority"} \X {"eq", "ne", "lt", "le", "gt", "ge", "startswith"}
            \X {PyStr(S_3), PyStr(S_03), PyStr(S_ab)} \X {"none", "int"})
    \cup ({"due_date"} \X {"eq", "le", "startswith"} \X {PyStr(S_03), PyStr(S_3)} \X {"none"})
    \cup ({"due_date_dt"} \X {"lt"} \X {PyStr(S_3)} \X {"none"})
    \cup ({"checked"} \X {"eq"} \X {PyStr(S_0), PyInt(0)} \X {"none"})
FilterSpecs ==
    {FSpec(k[1], k[2], k[3], p[1], p[2], k[4], n) :
        k \in KeyOpValueInputs, p \in PolicyInputs, n \in NegateInputs}
FilterSpecsLater == FSpec("priority", "eq", PyStr(S_3), "exclude", None, "none", PyBool(FALSE))
FilterSpecsShort ==
    {FilterSpecsLater,
     FSpec("priority", "ge", PyStr(S_3), "raise", None, "none", PyBool(FALSE)),
     FSpec("content", "iglob", PyStr(S_glob), "include", None, "none", PyBool(TRUE))}

AdaptorValues == {"a*", "not", "3", "p2"}
AdaptorOps == {"eq", "ge", "bogus"}
AdaptorArgs ==
    {<<>>, <<"not">>}
    \cup {<<v>> : v \in AdaptorValues}
    \cup {<<"not", v>> : v \in AdaptorValues}
    \cup {<<o, v>> : o \in AdaptorOps, v \in AdaptorValues}
    \cup {<<"not", o, v>> : o \in AdaptorOps, v \in AdaptorValues}
    \cup {<<"eq", v, "include">> : v \in AdaptorValues}
AdaptorArgsShort == {<<"a*">>, <<"not", "3">>, <<"eq", "p2">>}
ValueArgs == {<<>>, <<"a*">>, <<"3">>, <<"p2">>, <<"3", "include">>}

IsArgsPlain ==
    {<<>>, <<"due">>, <<"overdue">>, <<"due", "before", "tomorrow">>,
     <<"due", "before", "today eod">>, <<"due", "after", "today">>,
     <<"due", "on", "today">>, <<"due", "today">>, <<"due", "yesterday">>,
     <<"due", "or", "overdue">>, <<"overdue", "or", "due">>, <<"due", "before">>,
     <<"due", "after", "noon">>, <<"overdue", "tomorrow">>,
     <<"checked">>, <<"unchecked">>, <<"incomplete">>, <<"done">>,
     <<"in", "a">>, <<"in">>, <<"recurring">>, <<"someday">>}
IsArgs == IsArgsPlain \cup {<<"not">> \o a : a \in IsArgsPlain}
            \cup {<<"not", "not", "checked">>}
\* The words after -due.
WhenArgs == {Tail(a) : a \in {x \in IsArgsPlain : x # <<>> /\ x[1] = "due"}}
WhenArgsShort == {<<"before", "tomorrow">>}

PrintFormats == {"default", "* {content}", "pprint"}
SortKeys == {<<"project_name", "priority_str", "content">>, <<"content">>,
             <<"priority">>, <<"due_date_dt">>, <<"checked", "content">>,
             <<"project_name">>}
SortOrders == {"ascending", "descending"}

RescheduleArgs ==
    {<<>>} \cup {<<d>> : d \in {"tomorrow", "someday"}}
    \cup {<<d, z>> : d \in {"tomorrow", "yesterday", "someday"},
                     z \in {"date_string", "local", "UTC"}}
    \cup {<<"tomorrow", z, u>> : z \in {"date_string", "local"}, u \in {"True", ""}}
    \cup {<<"tomorrow", z, "True", "True">> : z \in {"date_string", "local"}}
Ticks == 0..(DayLen - 1)
CompletionMethods == {"close", "item_close", "complete", "item_complete",
                      "item_update_date_complete", "complete_recurring", "finish"}

(***************************************************************************)
(* Actions: the entries of the ACTIONS registry.                           *)
(***************************************************************************)
DoPrint ==
    /\ Ready
    /\ \E f \in Inputs(PrintFormats, {"default"}) :
          Stage("print", <<f>>, NoSpec, 0, print_tasks(Objs(current), f))

DoSort ==
    /\ Ready
    /\ \E k \in Inputs(SortKeys, {<<"content">>}), o \in Inputs(SortOrders, {"ascending"}) :
          Stage("sort", k \o <<o>>, NoSpec, 0, sort_tasks(Objs(current), k, o))

\* 'filter' and 'has'
DoFilter ==
    /\ Ready
    /\ \E F \in Inputs(FilterSpecsShort, {FilterSpecsLater}) :
          Stage("filter", <<>>, F, 0, filter_tasks(Objs(current), F))

DoIs ==
    /\ Ready
    /\ \E a \in Inputs(IsArgs, {<<"not", "checked">>}) :
          Stage("is", a, NoSpec, 0, special_is_filter(Objs(current), a))

DoNot ==
    /\ Ready
    /\ \E a \in Inputs(IsArgsPlain, {<<"overdue">>}) :
          Stage("not", a, NoSpec, 0, is_not_filter(Objs(current), a))

DoDue ==
    /\ Ready
    /\ \E a \in Inputs(WhenArgs, WhenArgsShort) :
          Stage("due", a, NoSpec, 0, due_date_filter(Objs(current), a))

DoContains ==
    /\ Ready
    /\ \E a \in Inputs(ValueArgs, {<<"3">>}) :
          Stage("contains", a, NoSpec, 0, content_contains_filter(Objs(current), a))

DoStartswith ==
    /\ Ready
    /\ \E a \in Inputs(ValueArgs, {<<"3">>}) :
          Stage("startswith", a, NoSpec, 0, content_startswith_filter(Objs(current), a))

DoEndswith ==
    /\ Ready
    /\ \E a \in Inputs(ValueArgs, {<<"3">>}) :
          Stage("endswith", a, NoSpec, 0, content_endswith_filter(Objs(current), a))

DoGlob ==
    /\ Ready
    /\ \E a \in Inputs(ValueArgs, {<<"3">>}) :
          Stage("glob", a, NoSpec, 0, content_glob_filter(Objs(current), a))

DoIglob ==
    /\ Ready
    /\ \E a \in Inputs(ValueArgs, {<<"3">>}) :
          Stage("iglob", a, NoSpec, 0, content_iglob_filter(Objs(current), a))

DoEq ==
    /\ Ready
    /\ \E a \in Inputs(ValueArgs, {<<"3">>}) :
          Stage("eq", a, NoSpec, 0, content_eq_filter(Objs(current), a))

DoIeq ==
    /\ Ready
    /\ \E a \in Inputs(ValueArgs, {<<"3">>}) :
          Stage("ieq", a, NoSpec, 0, content_ieq_filter(Objs(current), a))

\* 'content' and 'name'
DoContent ==
    /\ Ready
    /\ \E a \in Inputs(AdaptorArgs, {<<"not", "3">>}) :
          Stage("content", a, NoSpec, 0, content_filter(Objs(current), a))

DoProject ==
    /\ Ready
    /\ \E a \in Inputs(AdaptorArgsShort, {<<"eq", "p2">>}) :
          Stage("project", a, NoSpec, 0, project_filter(Objs(current), a))

DoPriority ==
    /\ Ready
    /\ \E a \in Inputs(AdaptorArgs, {<<"not", "3">>}) :
          Stage("priority", a, NoSpec, 0, priority_filter(Objs(current), a))

DoPriorityEq ==
    /\ Ready
    /\ \E a \in Inputs(ValueArgs, {<<"3">>}) :
          Stage("priority-eq", a, NoSpec, 0, priority_eq_filter(Objs(current), a))

DoPriorityGe ==
    /\ Ready
    /\ \E a \in Inputs(ValueArgs, {<<"3">>}) :
          Stage("priority-ge", a, NoSpec, 0, priority_ge_filter(Objs(current), a))

DoPriorityStr ==
    /\ Ready
    /\ \E a \in Inputs(AdaptorArgsShort, {<<"eq", "p2">>}) :
          Stage("priority-str", a, NoSpec, 0, priority_str_filter(Objs(current), a))

DoPriorityStrEq ==
    /\ Ready
    /\ \E a \in Inputs(ValueArgs, {<<"3">>}) :
          Stage("priority-str-eq", a, NoSpec, 0, priority_str_eq_filter(Objs(current), a))

\* 'p1' .. 'p4'
DoPN ==
    /\ Ready
    /\ \E w \in Inputs({"p1", "p2", "p3", "p4"}, {"p2"}),
          a \in Inputs({<<>>, <<"include">>}, {<<>>}) :
          Stage(w, a, NoSpec, 0, pN_filter(Objs(current), w, a))

DoReschedule ==
    /\ Ready /\ Room
    /\ \E a \in Inputs(RescheduleArgs, {<<"tomorrow">>}),
          tick \in Inputs(Ticks, {StartTick}) :
          LET now == DayStart(Today) + (IF Len(a) >= 2 /\ a[2] # "date_string" THEN tick ELSE 0)
          IN  Stage("reschedule", a, NoSpec, now, reschedule_tasks(Objs(current), a, now))

DoMarkCompleted ==
    /\ Ready /\ Room
    /\ \E m \in Inputs(CompletionMethods, {"close"}) :
          Stage("mark-completed", <<m>>, NoSpec, 0, mark_tasks_completed(Objs(current), m))

DoClose ==
    /\ Ready /\ Room
    /\ Stage("close", <<>>, NoSpec, 0, close_tasks(Objs(current)))

\* 'reopen' and 'uncomplete'
DoUncomplete ==
    /\ Ready /\ Room
    /\ Stage("uncomplete", <<>>, NoSpec, 0, uncomplete_tasks(Objs(current)))

DoArchive ==
    /\ Ready /\ Room
    /\ Stage("archive", <<>>, NoSpec, 0, archive_tasks(Objs(current)))

DoCompleteAndUpdate ==
    /\ Ready /\ Room
    /\ \E a \in Inputs({<<"", "">>, <<"tomorrow", "every">>}, {<<"", "">>}) :
          Stage("complete_and_update", a, NoSpec, 0,
                complete_and_update_date_for_recurring_tasks(Objs(current), a[1], a[2]))

Next ==
    \/ DoPrint \/ DoSort \/ DoFilter \/ DoIs \/ DoNot \/ DoDue
    \/ DoContains \/ DoStartswith \/ DoEndswith \/ DoGlob \/ DoIglob \/ DoEq \/ DoIeq
    \/ DoContent \/ DoProject \/ DoPriority \/ DoPriorityEq \/ DoPriorityGe
    \/ DoPriorityStr \/ DoPriorityStrEq \/ DoPN
    \/ DoReschedule \/ DoMarkCompleted \/ DoClose \/ DoUncomplete \/ DoArchive
    \/ DoCompleteAndUpdate

Spec == Init /\ [][Next]_vars

\* filter_tasks called once on a loaded list, over the full set of parameters.
FilterOnce ==
    /\ status = "ok" /\ step = 0
    /\ \E F \in FilterSpecs :
          Stage("filter", <<>>, F, 0, filter_tasks(Objs(current), F))

FilterSpec == Init /\ [][FilterOnce]_vars

(***************************************************************************)
(* One action called with the shared context as keyword arguments:         *)
(* action(tasks, *args, **context).                                        *)
(***************************************************************************)
\* The keyword arguments a registry function takes.  print_tasks, sort_tasks
\* and filter_tasks name verbose and data_attr; the filter adaptors hand
\* **kwargs on to filter_tasks; the mutating actions name verbose only.
MutatingActions ==
    {"reschedule", "mark-completed", "close", "uncomplete", "archive", "complete_and_update"}
AcceptedKeywords(action) ==
    IF action \in MutatingActions THEN {"verbose"} ELSE {"verbose", "data_attr"}

ActionNames ==
    {"print", "sort", "filter", "is", "not", "due", "contains", "startswith", "endswith",
     "glob", "iglob", "eq", "ieq", "content", "project", "priority", "priority-eq",
     "priority-ge", "priority-str", "priority-str-eq", "p1", "p2", "p3", "p4"}
    \cup MutatingActions
Contexts == {<<"verbose">>, <<"verbose", "data_attr">>}

\* ACTIONS[action](tasks, *args) with one choice of args per action.
Dispatch(action, tasks) ==
    CASE action = "print" -> print_tasks(tasks, "* {content}")
      [] action = "sort" -> sort_tasks(tasks, <<"content">>, "ascending")
      [] action = "filter" -> filter_tasks(tasks, FilterSpecsLater)
      [] action = "is" -> special_is_filter(tasks, <<"overdue">>)
      [] action = "not" -> is_not_filter(tasks, <<"checked">>)
      [] action = "due" -> due_date_filter(tasks, <<"before", "tomorrow">>)
      [] action = "contains" -> content_contains_filter(tasks, <<"a">>)
      [] action = "startswith" -> content_startswith_filter(tasks, <<"a">>)
      [] action = "endswith" -> content_endswith_filter(tasks, <<"b">>)
      [] action = "glob" -> content_glob_filter(tasks, <<"a*">>)
      [] action = "iglob" -> content_iglob_filter(tasks, <<"a*">>)
      [] action = "eq" -> content_eq_filter(tasks, <<"ab">>)
      [] action = "ieq" -> content_ieq_filter(tasks, <<"ab">>)
      [] action = "content" -> content_filter(tasks, <<"a*">>)
      [] action = "project" -> project_filter(tasks, <<"a">>)
      [] action = "priority" -> priority_filter(tasks, <<"3">>)
      [] action = "priority-eq" -> priority_eq_filter(tasks, <<"3">>)
      [] action = "priority-ge" -> priority_ge_filter(tasks, <<"3">>)
      [] action = "priority-str" -> priority_str_filter(tasks, <<"p2">>)
      [] action = "priority-str-eq" -> priority_str_eq_filter(tasks, <<"p2">>)
      [] action \in {"p1", "p2", "p3", "p4"} -> pN_filter(tasks, action, <<>>)
      [] action = "reschedule" -> reschedule_tasks(tasks, <<"tomorrow">>, DayStart(Today))
      [] action = "mark-completed" -> mark_tasks_completed(tasks, "close")
      [] action = "close" -> close_tasks(tasks)
      [] action = "uncomplete" -> uncomplete_tasks(tasks)
      [] action = "archive" -> archive_tasks(tasks)
      [] OTHER -> complete_and_update_date_for_recurring_tasks(tasks, "", "")

\* A keyword that the function does not take is a TypeError before its body runs.
CallWithContext(action, tasks, context) ==
    IF \E k \in 1..Len(context) : context[k] \notin AcceptedKeywords(action)
    THEN Effects(Raised, tasks, <<>>, <<>>)
    ELSE Dispatch(action, tasks)

Invoke ==
    /\ status = "ok" /\ step = 0
    /\ \E action \in ActionNames, context \in Contexts :
          Stage(action, context, NoSpec, 0, CallWithContext(action, Objs(current), context))

InvokeSpec == Init /\ [][Invoke]_vars

(***************************************************************************)
(* Properties.                                                             *)
(***************************************************************************)
Elems(l) == {l[k] : k \in 1..Len(l)}
Count(l, t) == Cardinality({k \in 1..Len(l) : l[k] = t})

RECURSIVE IsSubseq(_, _)
IsSubseq(a, b) ==
    IF a = <<>> THEN TRUE
    ELSE IF b = <<>> THEN FALSE
    ELSE IF a[1] = b[1] THEN IsSubseq(Tail(a), Tail(b))
    ELSE IsSubseq(a, Tail(b))

\* filter_tasks ran, alone or returned.
Filtered == last.action = "filter"
FilterReturned == Filtered /\ result.kind = "list"
\* The task value the filter reads at the key: None when absent or null.
ValueAt(task, taskkey) == LookUp(task.d, taskkey, None)
IsMissing(task, taskkey) == ValueAt(task, taskkey) = None

\* C1: whenever filter_tasks returns, the returned list is a subsequence of the
\* list it was given (only its tasks, no more often, in the same order), and
\* the list that was passed in still has the same members in the same order.
C1_FilterIsSubsequence ==
    FilterReturned =>
        /\ IsSubseq(result.list, last.input)
        /\ \A t \in PoolIds : Count(result.list, t) <= Count(last.input, t)
        /\ arglist = last.input

C1_Witness ==
    /\ FilterReturned
    /\ Len(last.input) = 2
    /\ last.input[1] # last.input[2]
    /\ result.list = <<last.input[2]>>

\* The task with a null value at the key the filter reads turned into a task
\* that lacks the key.
WithoutNull(task, taskkey) ==
    LET k == IF task.d["due"] = Dict /\ taskkey \in {"due_date", "due_date_utc"}
             THEN StripDue(taskkey) ELSE taskkey
    IN  [task EXCEPT !.d[k] = IF @ = None THEN Absent ELSE @]
WithoutNulls(l, taskkey) == [k \in 1..Len(l) |-> WithoutNull(l[k], taskkey)]

\* C3: under every missing policy a task whose key is present with a null
\* value gets the outcome (pass, drop, error) of the same task without the key.
C3_NullSameAsAbsent ==
    Filtered =>
        LET r2 == filter_tasks(WithoutNulls(Objs(last.input), last.F.taskkey), last.F)
        IN  /\ r2.kind = result.kind
            /\ Ids(r2.list) = result.list

\* C4: when filter_tasks returns, every task whose attribute is absent or null
\* is in the result (as often as in the input) under policy include and is not
\* in the result under policy exclude, whatever the operator, the comparison
\* value and the negate flag.
C4_MissingDecisionNotNegated ==
    FilterReturned =>
        \A k \in 1..Len(last.input) :
            IsMissing(Obj(last.input[k]), last.F.taskkey) =>
                /\ last.F.missing = "include" =>
                      Count(result.list, last.input[k]) = Count(last.input, last.input[k])
                /\ last.F.missing = "exclude" => last.input[k] \notin Elems(result.list)

C4_Witness ==
    /\ FilterReturned
    /\ NormNegate(last.F.negate)
    /\ last.F.missing = "include"
    /\ Len(last.input) = 2
    /\ IsMissing(Obj(last.input[1]), last.F.taskkey)
    /\ ~IsMissing(Obj(last.input[2]), last.F.taskkey)
    /\ result.list = <<last.input[1]>>

\* C5: under policy exclude the results with negate true and negate false are
\* disjoint and together hold exactly the tasks whose attribute is present.
C5_NegatePartitionsPresent ==
    (FilterReturned /\ last.F.missing = "exclude") =>
        LET flipped == [last.F EXCEPT !.negate = PyBool(~NormNegate(last.F.negate))]
            r2 == filter_tasks(Objs(last.input), flipped)
        IN  /\ r2.kind = "list"
            /\ Elems(result.list) \cap Elems(Ids(r2.list)) = {}
            /\ Elems(result.list) \cup Elems(Ids(r2.list)) =
                  {t \in Elems(last.input) : ~IsMissing(Obj(t), last.F.taskkey)}

C5_Witness ==
    /\ FilterReturned
    /\ last.F.missing = "exclude"
    /\ last.F.negate = NegStr("False")
    /\ Len(last.input) = 2
    /\ IsMissing(Obj(last.input[1]), last.F.taskkey)
    /\ result.list = <<last.input[2]>>

\* C6: when the task value and the comparison value differ in type, the
\* comparison value is converted to the task value's type and the task value
\* is compared as it is; an integer priority 3 passes priority eq "3".
C6_ComparisonValueCoerced ==
    (FilterReturned /\ NormTransform(last.F.value_transform) = "none"
        /\ last.F.missing # "default") =>
        \A k \in 1..Len(last.input) :
            LET tv == ValueAt(Obj(last.input[k]), last.F.taskkey)
                cv == IF tv.t = last.F.value.t THEN last.F.value
                      ELSE Construct(tv.t, last.F.value).v
            IN  /\ tv # None =>
                    (last.input[k] \in Elems(result.list)
                        <=> (BinOp(last.F.op_name, tv, cv).v # NormNegate(last.F.negate)))
                /\ (tv = PyInt(3) /\ last.F.op_name = "eq" /\ last.F.value = PyStr(S_3)
                      /\ ~NormNegate(last.F.negate))
                    => last.input[k] \in Elems(result.list)

C6_Witness ==
    /\ FilterReturned
    /\ last.F.taskkey = "priority" /\ last.F.op_name = "eq"
    /\ last.F.value = PyStr(S_3) /\ last.F.value_transform = "none"
    /\ last.F.missing = "exclude" /\ last.F.negate = PyBool(FALSE)
    /\ last.input = <<2, 1>>
    /\ result.list = <<1>>

\* C2: every action of the registry hands back a task list or raises, never
\* None; the list it hands back is the input of the next action, and the
\* action's own input is the list the previous action handed back.
C2_ActionsReturnTaskList ==
    [][/\ result'.kind \in {"list", "raise"}
       /\ last'.input = current
       /\ result'.kind = "list" => (current' = result'.list /\ status' = "ok")]_vars

C2_Witness ==
    /\ step = 2
    /\ status = "ok"
    /\ last.action = "close"
    /\ last.input = <<1>>
    /\ Len(arglist) = 1
    /\ result.list = <<1>>
    /\ Len(calls) = 1

\* The call filter_tasks(L, 'content', 'iglob', v) with the given negate.
DirectContentIglob(input, v, negate) ==
    filter_tasks(Objs(input),
        FSpec("content", "iglob", StrOf(v), "exclude", None, "none", PyBool(negate)))
SameOutcome(r) == r.kind = result.kind /\ Ids(r.list) = result.list
ContentRan == last.action = "content"

\* C7 as stated: content_filter with one bare value v gives what
\* filter_tasks(L, 'content', 'iglob', v) gives, for every v; with 'not' v what
\* that call gives with negate=true.
C7_ContentShorthandAnyValue ==
    ContentRan =>
        /\ Len(last.args) = 1 => SameOutcome(DirectContentIglob(last.input, last.args[1], FALSE))
        /\ (Len(last.args) = 2 /\ last.args[1] = "not") =>
              SameOutcome(DirectContentIglob(last.input, last.args[2], TRUE))

\* C7: content_filter with one bare value v other than the word 'not' gives
\* what filter_tasks(L, 'content', 'iglob', v) gives (the same list, or an
\* error where that raises); with 'not' v, for every v, what that call gives
\* with negate=true.
C7_ContentShorthand ==
    ContentRan =>
        /\ (Len(last.args) = 1 /\ last.args[1] # "not") =>
              SameOutcome(DirectContentIglob(last.input, last.args[1], FALSE))
        /\ (Len(last.args) = 2 /\ last.args[1] = "not") =>
              SameOutcome(DirectContentIglob(last.input, last.args[2], TRUE))

C7_Witness ==
    /\ ContentRan
    /\ last.args = <<"not", "a*">>
    /\ last.input = <<2, 3>>
    /\ result = Returned(<<3>>)

\* The words of a due-date filter as special_is_filter sees them after the
\* leading 'not'; <<>> when the last action was no due-date filter.
IsWords ==
    CASE last.action = "is" -> last.args
      [] last.action = "not" -> <<"not">> \o last.args
      [] last.action = "due" -> <<"due">> \o last.args
      [] OTHER -> <<>>
DueNegated == IsWords # <<>> /\ IsWords[1] = "not"
DueWords == IF DueNegated THEN Tail(IsWords) ELSE IsWords
DueRan == DueWords # <<>> /\ DueWords[1] \in {"due", "overdue"}
Completed(id) == Obj(id).d["checked"] = PyInt(1)
NoChecked(id) == Obj(id).d["checked"] \in {Absent, None}

\* C8: a list returned by a due-date filter (-is due/overdue ..., -due ...,
\* and the forms negated with 'not') holds no task with checked = 1, and a
\* task without a checked attribute is in it exactly when it passes the date
\* comparison.
C8_DueFiltersDropCompleted ==
    (DueRan /\ result.kind = "list") =>
        LET compared == DueCompare(Objs(last.input), DueWords, DueNegated)
        IN  /\ \A t \in Elems(result.list) : ~Completed(t)
            /\ compared.kind = "list" =>
                 \A t \in Elems(last.input) :
                    NoChecked(t) => (t \in Elems(result.list) <=> t \in Elems(Ids(compared.list)))

C8_Witness ==
    /\ DueRan
    /\ last.action = "is"
    /\ last.args = <<"due", "before", "tomorrow">>
    /\ last.input = <<2, 3>>
    /\ Completed(2) /\ NoChecked(3)
    /\ result = Returned(<<3>>)

\* The due datetime of a task (an instant), or None.
DueOf(id) == Obj(id).d["due_date_dt"]
HasDue(id) == DueOf(id).t = "datetime"
StartOfToday == astimezone_local(DayStart(Today))
EndOfToday == astimezone_local(DayStart(Today) + (DayLen - 1))
Overdue(input) == SelectSeq(input, LAMBDA t : ~Completed(t) /\ HasDue(t) /\ DueOf(t).i < StartOfToday)
DueByToday(input) == SelectSeq(input, LAMBDA t : ~Completed(t) /\ HasDue(t) /\ DueOf(t).i <= EndOfToday)
\* The tasks of the list are ones the overdue filter can read.
Readable(input) == special_is_filter(Objs(input), <<"overdue">>).kind = "list"

\* C9 as stated: without a date expression, 'overdue' returns the
\* not-completed tasks due before the start of today and 'due' returns the
\* not-completed tasks due at or before the end of today.
C9_DueAndOverdueDefaults ==
    (DueRan /\ ~DueNegated /\ Readable(last.input)) =>
        /\ DueWords = <<"overdue">> => result = Returned(Overdue(last.input))
        /\ DueWords = <<"due">> => result = Returned(DueByToday(last.input))

\* C10: in the date_string mode a returning reschedule_tasks has queued one
\* update per task, in list order, carrying the date string as it was given
\* (as the due string when the task data has a due entry, as date_string
\* otherwise) and no timestamp computed locally, and hands back its input.
RescheduleByStringRan ==
    /\ last.action = "reschedule"
    /\ Len(last.args) >= 1
    /\ (Len(last.args) = 1 \/ last.args[2] = "date_string")
C10_RescheduleSendsDateString ==
    (RescheduleByStringRan /\ result.kind = "list") =>
        /\ result.list = last.input
        /\ arglist = last.input
        /\ Len(calls) = last.base + Len(last.input)
        /\ \A k \in 1..Len(last.input) :
              calls[last.base + k] =
                  Call(last.input[k], "update",
                       IF Obj(last.input[k]).d["due"] # Absent THEN "due.string"
                       ELSE "date_string",
                       last.args[1], -1, "")

C10_Witness ==
    /\ RescheduleByStringRan
    /\ last.args = <<"someday">>
    /\ last.input = <<1, 2>>
    /\ result = Returned(<<1, 2>>)
    /\ Len(calls) = 2
    /\ calls[1].field = "due.string" /\ calls[2].field = "date_string"

SortRan == last.action = "sort"
SortedKeys == SubSeq(last.args, 1, Len(last.args) - 1)
SortedOrder == last.args[Len(last.args)]
\* The tasks of a list that have the same sort key as the task t, in list order.
WithKeyOf(l, t) ==
    SelectSeq(l, LAMBDA u : SortKey(Obj(u), SortedKeys) = SortKey(Obj(t), SortedKeys))

\* C11: when sort_tasks returns, sorting its result again by the same keys in
\* the same order returns the same list; the result holds each task as often
\* as the input does, and tasks with equal sort keys are in the order they
\* had in the input.
C11_SortIdempotentStable ==
    (SortRan /\ result.kind = "list") =>
        LET again == sort_tasks(Objs(result.list), SortedKeys, SortedOrder)
        IN  /\ again.kind = "list"
            /\ Ids(again.list) = result.list
            /\ \A t \in PoolIds : Count(result.list, t) = Count(last.input, t)
            /\ \A t \in Elems(last.input) :
                  WithKeyOf(result.list, t) = WithKeyOf(last.input, t)

C11_Witness ==
    /\ SortRan
    /\ last.args = <<"project_name", "descending">>
    /\ last.input = <<3, 1>>
    /\ result = Returned(<<3, 1>>)

\* The number of updates a reschedule with all four words given (no check for
\* recurring tasks, a date that parses) queues on the list l before it
\* returns or raises: in the date_string mode one per task up to the first
\* plain dict, otherwise one per Item up to the first task without date_string.
QueuedByReschedule(l, timezone) ==
    IF timezone = "date_string" THEN Len(ItemsPrefix(Objs(l)))
    ELSE Len(SelectSeq(DateStringPrefix(Objs(l)), LAMBDA t : t.item))

\* C12: an action runs only while no action has raised; the calls queued on
\* the client are never taken back, and a reschedule that raises in the
\* middle of its loop leaves the updates of the tasks before the failing one
\* queued.
C12_FailFastNoRollback ==
    [][/\ status = "ok"
       /\ Len(calls') >= Len(calls)
       /\ SubSeq(calls', 1, Len(calls)) = calls
       /\ (last'.action = "reschedule" /\ Len(last'.args) = 4 /\ status' = "error")
            => Len(calls') = Len(calls) + QueuedByReschedule(current, last'.args[2])]_vars

C12_Witness ==
    /\ status = "error"
    /\ step = 2
    /\ last.action = "reschedule"
    /\ last.base = 1
    /\ Len(calls) = 2
    /\ calls[1].field = "due_date_utc" /\ calls[2].field = "date_string"

\* C13: an action called with verbose and data_attr in the shared context
\* has the outcome (a list, or an error) it has with verbose alone: the
\* data_attr entry makes no action fail.
C13_ContextAccepted ==
    (last.action \in ActionNames /\ last.args = <<"verbose", "data_attr">>) =>
        result.kind = CallWithContext(last.action, Objs(last.input), <<"verbose">>).kind

\* The comparison value for one task: transformed, then converted to the
\* type of the task value.
ComparisonValue(task, F) ==
    LET v == Transformed(NormTransform(F.value_transform), F.value)
    IN  IF v.err THEN v ELSE Coerce(ValueAt(task, F.taskkey), v.v)
\* operator(task_value, comparison_value) differs from negate.
OperatorPasses(task, F) ==
    BinOp(F.op_name, ValueAt(task, F.taskkey), ComparisonValue(task, F).v).v
        # NormNegate(F.negate)
\* For this task the comparison value converts and the operator compares.
Comparable(task, F) ==
    /\ ~ComparisonValue(task, F).err
    /\ IsMissing(task, F.taskkey)
         \/ ~BinOp(F.op_name, ValueAt(task, F.taskkey), ComparisonValue(task, F).v).err
SomeMissing == \E t \in Elems(last.input) : IsMissing(Obj(t), last.F.taskkey)
RaiseOutcome ==
    /\ result.kind = "raise" <=> SomeMissing
    /\ result.kind = "raise" => result.list = <<>>
    /\ ~SomeMissing =>
          result.list = SelectSeq(last.input, LAMBDA t : OperatorPasses(Obj(t), last.F))

C15_UnimplementedMethodFails ==
    (last.action = "mark-completed"
        /\ last.args[1] \notin {"close", "item_close", "complete", "item_complete"}) =>
        /\ result = Raised
        /\ Len(calls) = last.base

\* The filter of the last step applied to the one task alone, where the
\* comparison value is the original one.
Alone(t) == filter_tasks(<<Obj(t)>>, last.F)

\* C16: on every task list filter_tasks gives what the tasks give one by one,
\* each with the original comparison value converted for that task only: it
\* fails when one of them fails, and otherwise returns the tasks that pass
\* alone, so that no task's outcome depends on the tasks before it.
C16_SharedCoercionSameAsPerTask ==
    (Filtered /\ last.input # <<>>) =>
        IF \E t \in Elems(last.input) : Alone(t).kind = "raise"
        THEN result = Raised
        ELSE result = Returned(SelectSeq(last.input, LAMBDA t : Alone(t).list # <<>>))

AdaptorActions == {"content", "project", "priority", "priority-str"}
AdaptorTaskkey ==
    "content" :> "content" @@ "project" :> "project_name" @@
    "priority" :> "priority" @@ "priority-str" :> "priority_str"
\* The words after an optional leading 'not'.
AfterNot == IF last.args # <<>> /\ last.args[1] = "not" THEN Tail(last.args) ELSE last.args

\* C17: an adaptor action called with operator, value and a third word gives
\* what filter_tasks gives with that operator and value and with the third
\* word as its missing policy: `-content eq X include` filters with policy
\* include.
C17_ExtraWordsForwarded ==
    (last.action \in AdaptorActions /\ Len(AfterNot) = 3) =>
        SameOutcome(filter_tasks(Objs(last.input),
            FSpec(AdaptorTaskkey[last.action], AfterNot[1], StrOf(AfterNot[2]), AfterNot[3],
                  None, IF last.action = "priority" THEN "int" ELSE "none",
                  PyBool(last.args[1] = "not"))))

\* C18: 'due or overdue' and 'overdue or due' (after -is, with or without a
\* leading 'not') give what 'due before tomorrow' gives on the same list.
C18_DueOrOverdue ==
    (DueWords \in {<<"due", "or", "overdue">>, <<"overdue", "or", "due">>}) =>
        SameOutcome(special_is_filter(Objs(last.input),
            (IF DueNegated THEN <<"not">> ELSE <<>>) \o <<"due", "before", "tomorrow">>))

\* C19: words that -is accepts (a list comes back) are accepted with one more
\* leading 'not' as well, also when they start with 'not' themselves; and
\* -not gives what -is gives on the same words behind a 'not'.
C19_NotPrefixAccepted ==
    /\ (last.action = "is" /\ result.kind = "list") =>
          special_is_filter(Objs(last.input), <<"not">> \o last.args).kind = "list"
    /\ last.action = "not" =>
          SameOutcome(special_is_filter(Objs(last.input), <<"not">> \o last.args))

\* The same task data inside a wrapper that has the data_attr mapping.
Wrapped(task) == [task EXCEPT !.item = TRUE, !.custom = TRUE]
AllWrapped(l) == [k \in 1..Len(l) |-> Wrapped(Obj(l[k]))]

\* C20: print_tasks, sort_tasks and filter_tasks give on a list with plain
\* task mappings what they give on the same data in wrapped tasks: a plain
\* mapping is read as it is, and no call fails for want of the wrapper.
C20_PlainMappingsAccepted ==
    /\ (last.action = "print" /\ last.args = <<"* {content}">>) =>
          SameOutcome(print_tasks(AllWrapped(last.input), "* {content}"))
    /\ last.action = "sort" =>
          SameOutcome(sort_tasks(AllWrapped(last.input), SortedKeys, SortedOrder))
    /\ last.action = "filter" =>
          SameOutcome(filter_tasks(AllWrapped(last.input), last.F))

\* filter_tasks with the default put through the transform whenever the
\* policy is default, whatever the default's truth value.
WithDefaultTransformed(tasks, F) ==
    LET transform == NormTransform(F.value_transform)
        value == Transformed(transform, F.value)
        default == IF F.missing = "default"
                   THEN Transformed(transform, NormDefault(F.default))
                   ELSE Ok(NormDefault(F.default))
    IN  IF F.op_name \notin OpNames \/ F.missing \notin Policies \/ value.err \/ default.err
        THEN Raised
        ELSE FilterLoop(tasks, F.taskkey, F.op_name, F.missing, default.v,
                        NormNegate(F.negate), value.v)

\* C21: with a value transform and a default given, filter_tasks gives what
\* it gives when under policy default the default goes through the transform
\* before the first task is looked at (an empty or zero default as well), and
\* under the other policies the default is left as it is.
C21_DefaultTransformed ==
    (Filtered /\ NormTransform(last.F.value_transform) # "none"
        /\ NormDefault(last.F.default) # None) =>
        SameOutcome(WithDefaultTransformed(Objs(last.input), last.F))

RescheduleByUtcRan ==
    /\ last.action = "reschedule"
    /\ Len(last.args) >= 2
    /\ last.args[2] # "date_string"
\* The offset from UTC of a wall-clock time in the requested timezone.
ZoneOffset(timezone) == IF timezone = "UTC" THEN 0 ELSE LocalOffset
\* The parsed new date of the last reschedule, snapped as lines 658-659 do,
\* taken as a wall-clock time of the requested timezone and converted to UTC.
RequestedUtc ==
    LET parsed == dateparser_parse(last.args[1], last.clock)
        dt == IF SnapsToEndOfDay(last.args[1]) THEN end_of_day(parsed.dt) ELSE parsed.dt
    IN  dt - ZoneOffset(last.args[2])
WrappedOf(l) == SelectSeq(l, LAMBDA t : Obj(t).item)

\* C22: a reschedule in a timezone mode other than 'date_string' that returns
\* has queued one update per wrapped task, carrying the task's date string and
\* the new date as a UTC timestamp computed from the requested timezone (for
\* 'UTC' the parsed wall-clock time itself, for 'local' that time less the
\* local offset).
C22_RescheduleLocalizes ==
    (RescheduleByUtcRan /\ result.kind = "list") =>
        /\ Len(calls) = last.base + Len(WrappedOf(last.input))
        /\ \A k \in 1..Len(WrappedOf(last.input)) :
              calls[last.base + k] =
                  Call(WrappedOf(last.input)[k], "update", "due_date_utc", "", RequestedUtc,
                       Obj(WrappedOf(last.input)[k]).d["date_string"].s)

====
